---------------------------- MODULE Spec2Model ----------------------------
(***************************************************************************)
(* State machine of the F1Dashboard component (frontend/src/App.jsx): the  *)
(* React state of the component, the requests it has in flight, and one    *)
(* action per event handler and per completion of an awaited request.      *)
(* A handler's code up to its first await is one action; its continuation  *)
(* after the await (try / catch / finally) is another, run when the        *)
(* response of the request is delivered.                                   *)
(***************************************************************************)
EXTENDS Naturals, Sequences, FiniteSets, TLC

(***************************************************************************)
(* Bounds of the model.                                                    *)
(***************************************************************************)
\* Number of user operations that issue a request (fetch, load, analyze,
\* upload, confirmed delete) in one behaviour.
MaxUserOps == 2

\* Number of user operations in one behaviour in which the user does nothing
\* but analyze files (SpecAnalyses).
MaxAnalyzeCalls == 3

\* Number of options of the year selector, out of the 75 it offers, that the
\* user picks among in one behaviour.
MaxYearInputs == 2

(***************************************************************************)
(* JavaScript values.                                                      *)
(***************************************************************************)
Null == [type |-> "null"]
Undefined == [type |-> "undefined"]
Str(s) == [type |-> "string", value |-> s]
Num(n) == [type |-> "number", value |-> n]
Array(items) == [type |-> "array", items |-> items]

\* A value read from a JSON body: undefined when the field is absent.
Field(body, name) == IF name \in DOMAIN body THEN body[name] ELSE Undefined

\* JavaScript truthiness of a value of the model.
Truthy(v) ==
    CASE v.type = "null" -> FALSE
      [] v.type = "undefined" -> FALSE
      [] v.type = "string" -> v.value # ""
      [] v.type = "boolean" -> v.value
      [] OTHER -> TRUE

Bool(b) == [type |-> "boolean", value |-> b]

\* a || b
Or(a, b) == IF Truthy(a) THEN a ELSE b

(***************************************************************************)
(* The tabs.                                                               *)
(***************************************************************************)
BaseTabs == {"standings", "constructors", "race", "historical", "files"}

Tabs == BaseTabs \cup {"file-analysis"}

\* generateYearOptions(): the options of the year selector, from currentYear
\* down to 1950.
CurrentYear == 2024

FirstYear == 1950

GenerateYearOptions ==
    [i \in 1..(CurrentYear - FirstYear + 1) |-> CurrentYear + 1 - i]

Years == {GenerateYearOptions[i] : i \in DOMAIN GenerateYearOptions}

\* The options the user picks among in a behaviour of the model: the last
\* option and the first MaxYearInputs - 1 options.
YearInputs ==
    {GenerateYearOptions[Len(GenerateYearOptions)]}
        \cup {GenerateYearOptions[i] : i \in 1..(MaxYearInputs - 1)}

\* The file ids of the backend.
FileIds == {1, 2, 3, 4}

\* The files the backend holds when the component mounts.
InitialFiles == {1, 2, 3}

\* The backend's filename of file id: files 1 and 3 share a filename, and
\* so do files 2 and 4.
FileName(id) == IF id % 2 = 1 THEN "a.csv" ELSE "b.csv"

FileRecord(id) == [type |-> "object", id |-> id, filename |-> Str(FileName(id))]

\* The analysis the backend computes from the contents of file id: two files
\* of one filename are distinct records whose contents, and so whose
\* analyses, differ.
Analysis(id) == [type |-> "object", contents |-> id]

VARIABLES
    activeTab,             \* useState('standings')
    f1Data,                \* season snapshot cache
    insights,              \* insights cache
    files,                 \* file list cache
    loading,               \* shared loading flag
    error,                 \* banner error
    uploadStatus,          \* upload status indicator
    selectedYear,          \* year selector
    historicalData,        \* historical season cache
    selectedFileAnalysis,  \* file analysis cache
    analyzingFileId,       \* id of the file being analyzed
    net,                   \* requests in flight, with their responses
    timers,                \* pending setTimeout callbacks of handleFileUpload
    notice,                \* alert() or confirm() of the last step (Null: none)
    serverFiles,           \* ids of the files the backend holds
    userOps                \* user operations started so far

state == <<activeTab, f1Data, insights, files, loading, error, uploadStatus,
           selectedYear, historicalData, selectedFileAnalysis, analyzingFileId>>

vars == <<activeTab, f1Data, insights, files, loading, error, uploadStatus,
          selectedYear, historicalData, selectedFileAnalysis, analyzingFileId,
          net, timers, notice, serverFiles, userOps>>


(***************************************************************************)
(* Requests in flight.  A request is issued by a handler, answered by the  *)
(* backend (or rejected by the transport), and its answer is then          *)
(* delivered to the continuation of the handler that awaits it.            *)
(***************************************************************************)
Pending == [outcome |-> "pending"]

\* fetch() rejected, or response.json() threw: err.message is message.
Rejected(message) == [outcome |-> "rejected", message |-> message]

\* fetch() resolved with an HTTP response carrying a JSON body.
Resolved(ok, status, body) ==
    [outcome |-> "resolved", ok |-> ok, status |-> status, body |-> body]

\* What a handler's closure holds of the render it was created in; only
\* deleteFile reads component state after its await.
NoCapture == [selectedFileAnalysis |-> Null, files |-> Array(<< >>)]

Capture == [selectedFileAnalysis |-> selectedFileAnalysis, files |-> files]

\* Requests in flight are a multiset: a request is told from the others
\* that are equal to it by its copy number, and of equal requests the one
\* with the highest copy number is answered or delivered first.
Copies(inflight, kind, arg, cap, resp) ==
    {m \in inflight : /\ m.kind = kind /\ m.arg = arg
                      /\ m.cap = cap /\ m.resp = resp}

Message(inflight, kind, arg, cap, resp) ==
    [copy |-> Cardinality(Copies(inflight, kind, arg, cap, resp)) + 1,
     kind |-> kind, arg |-> arg, cap |-> cap, resp |-> resp]

Request(inflight, kind, arg, cap) ==
    Message(inflight, kind, arg, cap, Pending)

\* m is the one of its equals that is answered or delivered next.
Foremost(m) ==
    m.copy = Cardinality(Copies(net, m.kind, m.arg, m.cap, m.resp))

InFlight(kind) == {m \in net : m.kind = kind}

\* The response of m has arrived.
Answered(m) == m.resp.outcome # "pending"

\* The continuation that awaits m may run.
Deliverable(m) == Answered(m) /\ Foremost(m)

(***************************************************************************)
(* The backend, as far as its request/response contracts say.              *)
(***************************************************************************)
\* Messages a declared failure carries.
ServerMessages == {"no data"}

\* err.message of a transport failure.
TransportErrors == {"Failed to fetch"}

Failure(message) == [success |-> Bool(FALSE), message |-> Str(message)]

FailureNoMessage == [success |-> Bool(FALSE)]

DeclaredFailures ==
    {Resolved(TRUE, 200, Failure(msg)) : msg \in ServerMessages}
        \cup {Resolved(TRUE, 200, FailureNoMessage)}

TransportFailures == {Rejected(e) : e \in TransportErrors}

DriverRow(position) == [type |-> "object", position |-> position]

\* Three season snapshots: two drivers by ascending position, the same two
\* the other way round, and twelve drivers ranked 1..12.
SeasonPayloads ==
    {[type |-> "object",
      driver_standings |-> Array(<<DriverRow(1), DriverRow(2)>>)],
     [type |-> "object",
      driver_standings |-> Array(<<DriverRow(2), DriverRow(1)>>)],
     [type |-> "object",
      driver_standings |-> Array([i \in 1..12 |-> DriverRow(i)])]}

InsightsPayload == Array(<<[type |-> "object", insight |-> "leader"]>>)

RECURSIVE FileList(_)
\* The file records of a set of ids, by ascending id.
FileList(ids) ==
    IF ids = {} THEN << >>
    ELSE LET least == CHOOSE i \in ids : \A j \in ids : i <= j
         IN  <<FileRecord(least)>> \o FileList(ids \ {least})

\* The responses the backend may give to request m.
Replies(m) ==
    CASE m.kind = "fetch-data" ->
             {Resolved(TRUE, 200, [success |-> Bool(TRUE), data |-> d]) :
                  d \in SeasonPayloads}
                 \cup DeclaredFailures
                 \cup {Resolved(FALSE, 500, FailureNoMessage)}
                 \cup TransportFailures
      [] m.kind = "insights" ->
             {Resolved(TRUE, 200,
                       [success |-> Bool(TRUE), insights |-> InsightsPayload]),
              Resolved(TRUE, 200, FailureNoMessage)}
                 \cup TransportFailures
      [] m.kind = "historical" ->
             {Resolved(TRUE, 200,
                       [type |-> "object", success |-> Bool(TRUE),
                        year |-> m.arg])}
                 \cup DeclaredFailures
                 \cup TransportFailures
      [] m.kind = "files" ->
             {Resolved(TRUE, 200,
                       [success |-> Bool(TRUE),
                        files |-> Array(FileList(serverFiles))]),
              Resolved(TRUE, 200, FailureNoMessage)}
                 \cup TransportFailures
      [] m.kind = "analyze" ->
             {Resolved(TRUE, 200,
                       [type |-> "object", success |-> Bool(TRUE),
                        filename |-> Str(FileName(m.arg)),
                        analysis |-> Analysis(m.arg)])}
                 \cup DeclaredFailures
                 \cup TransportFailures
      [] m.kind = "upload" ->
             (IF FileIds \subseteq serverFiles THEN {}
              ELSE {Resolved(TRUE, 200, [success |-> Bool(TRUE)])})
                 \cup {Resolved(TRUE, 200, FailureNoMessage)}
                 \cup TransportFailures
      [] m.kind = "delete" ->
             {Resolved(TRUE, 200, [success |-> Bool(TRUE)]),
              Resolved(FALSE, 404, FailureNoMessage)}
                 \cup TransportFailures

\* The backend's files after it has answered request m with r.
ServerEffect(m, r) ==
    IF r.outcome = "resolved" /\ r.ok
    THEN CASE m.kind = "upload" /\ r.body.success.value ->
                  serverFiles \cup
                      {CHOOSE i \in FileIds \ serverFiles :
                           \A j \in FileIds \ serverFiles : i <= j}
           [] m.kind = "delete" -> serverFiles \ {m.arg}
           [] OTHER -> serverFiles
    ELSE serverFiles

\* The backend answers a pending request, or the transport fails it.
ServerReply ==
    \E m \in net :
        /\ m.resp = Pending /\ Foremost(m)
        /\ \E r \in Replies(m) :
               /\ net' = (net \ {m}) \cup
                      {Message(net \ {m}, m.kind, m.arg, m.cap, r)}
               /\ serverFiles' = ServerEffect(m, r)
        /\ notice' = Null
        /\ UNCHANGED <<state, timers, userOps>>

(***************************************************************************)
(* The render: what the user can see and click.                            *)
(***************************************************************************)
\* Mutant of AvailableTabs: the conditional file-analysis entry is left out.
AvailableTabsWithoutAnalysis == BaseTabs

\* The tab list of the render.
AvailableTabs ==
    BaseTabs \cup
        (IF Truthy(selectedFileAnalysis) THEN {"file-analysis"} ELSE {})

\* The component is mounted.  The render throws, and React unmounts the
\* component, when it reads .length of a cache that is not an array: insights
\* in every render, files in the render of the file manager tab.  An
\* unmounted component offers no button; the continuations of its requests
\* in flight and its pending timers still run, and their state setters
\* change nothing.
Rendered ==
    /\ insights.type = "array"
    /\ activeTab = "files" => files.type = "array"

\* The ids of the file records of an array.
IdsOf(list) == {list.items[i].id : i \in DOMAIN list.items}

\* files.find(f => f.id === fileId)
Find(list, fileId) ==
    IF \E i \in DOMAIN list.items : list.items[i].id = fileId
    THEN list.items[CHOOSE i \in DOMAIN list.items :
                        /\ list.items[i].id = fileId
                        /\ \A j \in DOMAIN list.items :
                               list.items[j].id = fileId => i <= j]
    ELSE Undefined

\* items.slice(start, end) for 0 <= start <= end.
Slice(items, start, end) ==
    SubSeq(items, start + 1, IF end < Len(items) THEN end ELSE Len(items))

\* Mutant of GetDriverStandings: the list is not cut.
GetDriverStandingsUncut ==
    IF ~Truthy(Field(f1Data, "driver_standings")) THEN << >>
    ELSE f1Data.driver_standings.items

\* getDriverStandings(): the rows of the driver standings view.
GetDriverStandings ==
    IF ~Truthy(Field(f1Data, "driver_standings")) THEN << >>
    ELSE Slice(f1Data.driver_standings.items, 0, 10)

\* What a state setter called with value leaves in a state variable that
\* holds current: a setter of an unmounted component changes nothing.
Set(value, current) == IF Rendered THEN value ELSE current

\* A user operation that issues a request may start.
MayStart == Rendered /\ userOps < MaxUserOps

\* fetch() resolved and the body's success flag is truthy.
Success(r) == r.outcome = "resolved" /\ Truthy(Field(r.body, "success"))

(***************************************************************************)
(* Tabs and the year selector.                                             *)
(***************************************************************************)
\* Mutant of SetActiveTab: a tab click also resets the upload status
\* indicator.
SetActiveTabResetsUpload(t) ==
    /\ Rendered
    /\ t \in AvailableTabs
    /\ activeTab' = t
    /\ uploadStatus' = ""
    /\ notice' = Null
    /\ UNCHANGED <<f1Data, insights, files, loading, error,
                   selectedYear, historicalData, selectedFileAnalysis,
                   analyzingFileId, net, timers, serverFiles, userOps>>

\* onClick of a tab button.
SetActiveTab(t) ==
    /\ Rendered
    /\ t \in AvailableTabs
    /\ activeTab' = t
    /\ notice' = Null
    /\ UNCHANGED <<f1Data, insights, files, loading, error, uploadStatus,
                   selectedYear, historicalData, selectedFileAnalysis,
                   analyzingFileId, net, timers, serverFiles, userOps>>

\* onChange of the year selector.
SetSelectedYear(y) ==
    /\ Rendered
    /\ y \in Years
    /\ activeTab = "historical"
    /\ selectedYear' = y
    /\ notice' = Null
    /\ UNCHANGED <<activeTab, f1Data, insights, files, loading, error,
                   uploadStatus, historicalData, selectedFileAnalysis,
                   analyzingFileId, net, timers, serverFiles, userOps>>

(***************************************************************************)
(* fetchF1Data and fetchInsights.                                          *)
(***************************************************************************)
\* Mutant of FetchF1Data: setError(null) is left out.
FetchF1DataKeepsError ==
    /\ MayStart
    /\ ~loading
    /\ loading' = TRUE
    /\ net' = net \cup {Request(net, "fetch-data", 0, NoCapture)}
    /\ userOps' = userOps + 1
    /\ notice' = Null
    /\ UNCHANGED <<activeTab, f1Data, insights, files, error, uploadStatus,
                   selectedYear, historicalData, selectedFileAnalysis,
                   analyzingFileId, timers, serverFiles>>

\* Mutant of FetchF1Data: the fetch button is not disabled while loading.
FetchF1DataWhileLoading ==
    /\ MayStart
    /\ loading' = TRUE
    /\ error' = Null
    /\ net' = net \cup {Request(net, "fetch-data", 0, NoCapture)}
    /\ userOps' = userOps + 1
    /\ notice' = Null
    /\ UNCHANGED <<activeTab, f1Data, insights, files, uploadStatus,
                   selectedYear, historicalData, selectedFileAnalysis,
                   analyzingFileId, timers, serverFiles>>

\* fetchF1Data up to its await.
FetchF1Data ==
    /\ MayStart
    /\ ~loading
    /\ loading' = TRUE
    /\ error' = Null
    /\ net' = net \cup {Request(net, "fetch-data", 0, NoCapture)}
    /\ userOps' = userOps + 1
    /\ notice' = Null
    /\ UNCHANGED <<activeTab, f1Data, insights, files, uploadStatus,
                   selectedYear, historicalData, selectedFileAnalysis,
                   analyzingFileId, timers, serverFiles>>

\* fetchF1Data threw: fetch rejected, or the response was not ok.
F1Threw(r) == r.outcome = "rejected" \/ ~r.ok

F1ErrMessage(r) ==
    IF r.outcome = "rejected" THEN r.message
    ELSE "HTTP error! status: " \o ToString(r.status)

\* fetchF1Data took its success branch.
F1Ok(r) == ~F1Threw(r) /\ Success(r)

\* Mutant of F1DataAfter: setF1Data(data.data) stands before the test of
\* data.success.
F1DataAfterUnguarded(r) ==
    IF F1Threw(r) THEN f1Data ELSE Field(r.body, "data")

\* The season snapshot cache after fetchF1Data's continuation.
F1DataAfter(r) ==
    IF F1Ok(r) THEN Field(r.body, "data") ELSE f1Data

\* The banner error after fetchF1Data's continuation.
F1Error(r) ==
    IF F1Threw(r)
    THEN Str("Backend connection failed: " \o F1ErrMessage(r)
                 \o ". Make sure your backend server is running on port 8000.")
    ELSE IF Success(r) THEN error
    ELSE Or(Field(r.body, "message"), Str("Failed to fetch data"))

\* Mutant of FetchF1DataDone: fetchInsights() stands in the finally block.
FetchF1DataDoneAlwaysInsights(m) ==
    /\ m.kind = "fetch-data" /\ Deliverable(m)
    /\ f1Data' = Set(F1DataAfter(m.resp), f1Data)
    /\ error' = Set(F1Error(m.resp), error)
    /\ net' = (net \ {m}) \cup {Request(net \ {m}, "insights", 0, NoCapture)}
    /\ loading' = Set(FALSE, loading)
    /\ notice' = Null
    /\ UNCHANGED <<activeTab, insights, files, uploadStatus, selectedYear,
                   historicalData, selectedFileAnalysis, analyzingFileId,
                   timers, serverFiles, userOps>>

\* fetchF1Data from its await on.
FetchF1DataDone(m) ==
    /\ m.kind = "fetch-data" /\ Deliverable(m)
    /\ f1Data' = Set(F1DataAfter(m.resp), f1Data)
    /\ error' = Set(F1Error(m.resp), error)
    /\ net' = (net \ {m}) \cup
           (IF F1Ok(m.resp)
            THEN {Request(net \ {m}, "insights", 0, NoCapture)}
            ELSE {})
    /\ loading' = Set(FALSE, loading)
    /\ notice' = Null
    /\ UNCHANGED <<activeTab, insights, files, uploadStatus, selectedYear,
                   historicalData, selectedFileAnalysis, analyzingFileId,
                   timers, serverFiles, userOps>>

\* The insights cache after fetchInsights's continuation.
InsightsAfter(r) ==
    IF r.outcome = "resolved" THEN Field(r.body, "insights") ELSE insights

\* Mutant of FetchInsightsDone: the catch block reports the failure in the
\* banner.
FetchInsightsDoneReports(m) ==
    /\ m.kind = "insights" /\ Deliverable(m)
    /\ insights' = Set(InsightsAfter(m.resp), insights)
    /\ error' = Set(IF m.resp.outcome = "rejected"
                    THEN Str("Failed to fetch insights: " \o m.resp.message)
                    ELSE error, error)
    /\ net' = net \ {m}
    /\ notice' = Null
    /\ UNCHANGED <<activeTab, f1Data, files, loading, uploadStatus,
                   selectedYear, historicalData, selectedFileAnalysis,
                   analyzingFileId, timers, serverFiles, userOps>>

\* fetchInsights from its await on.
FetchInsightsDone(m) ==
    /\ m.kind = "insights" /\ Deliverable(m)
    /\ insights' = Set(InsightsAfter(m.resp), insights)
    /\ net' = net \ {m}
    /\ notice' = Null
    /\ UNCHANGED <<activeTab, f1Data, files, loading, error, uploadStatus,
                   selectedYear, historicalData, selectedFileAnalysis,
                   analyzingFileId, timers, serverFiles, userOps>>

(***************************************************************************)
(* fetchHistoricalData.                                                    *)
(***************************************************************************)
\* Mutant of FetchHistoricalData: setHistoricalData(null) is left out.
FetchHistoricalDataKeepsCache ==
    /\ MayStart
    /\ activeTab = "historical"
    /\ ~loading
    /\ loading' = TRUE
    /\ error' = Null
    /\ net' = net \cup {Request(net, "historical", selectedYear, NoCapture)}
    /\ userOps' = userOps + 1
    /\ notice' = Null
    /\ UNCHANGED <<activeTab, f1Data, insights, files, uploadStatus,
                   selectedYear, historicalData, selectedFileAnalysis,
                   analyzingFileId, timers, serverFiles>>

\* Mutant of FetchHistoricalData: the Load Data button is not disabled while
\* loading.
FetchHistoricalDataWhileLoading ==
    /\ MayStart
    /\ activeTab = "historical"
    /\ loading' = TRUE
    /\ error' = Null
    /\ historicalData' = Null
    /\ net' = net \cup {Request(net, "historical", selectedYear, NoCapture)}
    /\ userOps' = userOps + 1
    /\ notice' = Null
    /\ UNCHANGED <<activeTab, f1Data, insights, files, uploadStatus,
                   selectedYear, selectedFileAnalysis, analyzingFileId,
                   timers, serverFiles>>

\* onClick of Load Data: fetchHistoricalData(selectedYear) up to its await.
FetchHistoricalData ==
    /\ MayStart
    /\ activeTab = "historical"
    /\ ~loading
    /\ loading' = TRUE
    /\ error' = Null
    /\ historicalData' = Null
    /\ net' = net \cup {Request(net, "historical", selectedYear, NoCapture)}
    /\ userOps' = userOps + 1
    /\ notice' = Null
    /\ UNCHANGED <<activeTab, f1Data, insights, files, uploadStatus,
                   selectedYear, selectedFileAnalysis, analyzingFileId,
                   timers, serverFiles>>

\* Mutant of HistoricalError: the server's message is not used.
HistoricalErrorDefault(r, year) ==
    IF r.outcome = "rejected"
    THEN Str("Failed to fetch historical data: " \o r.message)
    ELSE IF Success(r) THEN error
    ELSE Str("No data available for " \o ToString(year))

\* The banner error after fetchHistoricalData(year)'s continuation.
HistoricalError(r, year) ==
    IF r.outcome = "rejected"
    THEN Str("Failed to fetch historical data: " \o r.message)
    ELSE IF Success(r) THEN error
    ELSE Or(Field(r.body, "message"),
            Str("No data available for " \o ToString(year)))

\* The historical season cache after fetchHistoricalData's continuation.
HistoricalAfter(r) ==
    IF Success(r) THEN r.body ELSE historicalData

\* fetchHistoricalData from its await on.
FetchHistoricalDataDone(m) ==
    /\ m.kind = "historical" /\ Deliverable(m)
    /\ historicalData' = Set(HistoricalAfter(m.resp), historicalData)
    /\ error' = Set(HistoricalError(m.resp, m.arg), error)
    /\ loading' = Set(FALSE, loading)
    /\ net' = net \ {m}
    /\ notice' = Null
    /\ UNCHANGED <<activeTab, f1Data, insights, files, uploadStatus,
                   selectedYear, selectedFileAnalysis, analyzingFileId,
                   timers, serverFiles, userOps>>

(***************************************************************************)
(* fetchFiles.                                                             *)
(***************************************************************************)
\* Mutant of FilesAfter: a list shorter than the cached one is not stored.
FilesAfterKeepsLonger(r) ==
    IF r.outcome = "resolved"
    THEN LET list == Field(r.body, "files")
         IN  IF list.type = "array" /\ files.type = "array"
                    /\ Len(list.items) < Len(files.items)
             THEN files ELSE list
    ELSE files

\* The file list cache after fetchFiles's continuation.
FilesAfter(r) ==
    IF r.outcome = "resolved" THEN Field(r.body, "files") ELSE files

\* Mutant of FetchFilesDone: the catch block calls fetchFiles() again.
FetchFilesDoneRetries(m) ==
    /\ m.kind = "files" /\ Deliverable(m)
    /\ files' = Set(FilesAfter(m.resp), files)
    /\ net' = (net \ {m}) \cup
           (IF m.resp.outcome = "rejected"
            THEN {Request(net \ {m}, "files", 0, NoCapture)}
            ELSE {})
    /\ notice' = Null
    /\ UNCHANGED <<activeTab, f1Data, insights, loading, error, uploadStatus,
                   selectedYear, historicalData, selectedFileAnalysis,
                   analyzingFileId, timers, serverFiles, userOps>>

\* fetchFiles from its await on.
FetchFilesDone(m) ==
    /\ m.kind = "files" /\ Deliverable(m)
    /\ files' = Set(FilesAfter(m.resp), files)
    /\ net' = net \ {m}
    /\ notice' = Null
    /\ UNCHANGED <<activeTab, f1Data, insights, loading, error, uploadStatus,
                   selectedYear, historicalData, selectedFileAnalysis,
                   analyzingFileId, timers, serverFiles, userOps>>

(***************************************************************************)
(* analyzeFile.                                                            *)
(***************************************************************************)
\* onClick of the Analyze button of file fileId: analyzeFile(fileId) up to
\* its await.  The button is disabled while analyzingFileId === fileId.
AnalyzeFile(fileId) ==
    /\ Rendered /\ userOps < MaxAnalyzeCalls
    /\ activeTab = "files"
    /\ fileId \in IdsOf(files)
    /\ analyzingFileId # Num(fileId)
    /\ analyzingFileId' = Num(fileId)
    /\ net' = net \cup {Request(net, "analyze", fileId, NoCapture)}
    /\ userOps' = userOps + 1
    /\ notice' = Null
    /\ UNCHANGED <<activeTab, f1Data, insights, files, loading, error,
                   uploadStatus, selectedYear, historicalData,
                   selectedFileAnalysis, timers, serverFiles>>

\* Mutant of AnalyzeAlert: a failure is not reported.
AnalyzeAlertSilent(r) == Null

\* The alert of analyzeFile's continuation (Null: none).
AnalyzeAlert(r) ==
    IF r.outcome = "rejected"
    THEN Str("Error analyzing file: " \o r.message)
    ELSE IF Success(r) THEN Null
    ELSE Or(Field(r.body, "message"), Str("Failed to analyze file"))

\* Mutant of AnalysisAfterAnalyze: a cached analysis is not replaced.
AnalysisAfterAnalyzeKeepsFirst(r) ==
    IF Success(r) /\ selectedFileAnalysis = Null THEN r.body
    ELSE selectedFileAnalysis

\* The analysis cache after analyzeFile's continuation.
AnalysisAfterAnalyze(r) ==
    IF Success(r) THEN r.body ELSE selectedFileAnalysis

\* The active tab after analyzeFile's continuation.
TabAfterAnalyze(r) ==
    IF Success(r) THEN "file-analysis" ELSE activeTab

\* Mutant of AnalyzeFileDone: setAnalyzingFileId(null) stands at the end of
\* the success branch instead of in the finally block.
AnalyzeFileDoneNoFinally(m) ==
    /\ m.kind = "analyze" /\ Deliverable(m)
    /\ selectedFileAnalysis' =
           Set(AnalysisAfterAnalyze(m.resp), selectedFileAnalysis)
    /\ activeTab' = Set(TabAfterAnalyze(m.resp), activeTab)
    /\ notice' = AnalyzeAlert(m.resp)
    /\ analyzingFileId' =
           Set(IF Success(m.resp) THEN Null ELSE analyzingFileId,
               analyzingFileId)
    /\ net' = net \ {m}
    /\ UNCHANGED <<f1Data, insights, files, loading, error, uploadStatus,
                   selectedYear, historicalData, timers, serverFiles,
                   userOps>>

\* analyzeFile from its await on.
AnalyzeFileDone(m) ==
    /\ m.kind = "analyze" /\ Deliverable(m)
    /\ selectedFileAnalysis' =
           Set(AnalysisAfterAnalyze(m.resp), selectedFileAnalysis)
    /\ activeTab' = Set(TabAfterAnalyze(m.resp), activeTab)
    /\ notice' = AnalyzeAlert(m.resp)
    /\ analyzingFileId' = Set(Null, analyzingFileId)
    /\ net' = net \ {m}
    /\ UNCHANGED <<f1Data, insights, files, loading, error, uploadStatus,
                   selectedYear, historicalData, timers, serverFiles,
                   userOps>>

(***************************************************************************)
(* handleFileUpload.                                                       *)
(***************************************************************************)
\* onChange of the file input with a file chosen: handleFileUpload up to
\* its await.
HandleFileUpload ==
    /\ MayStart
    /\ activeTab = "files"
    /\ uploadStatus' = "Uploading..."
    /\ net' = net \cup {Request(net, "upload", 0, NoCapture)}
    /\ userOps' = userOps + 1
    /\ notice' = Null
    /\ UNCHANGED <<activeTab, f1Data, insights, files, loading, error,
                   selectedYear, historicalData, selectedFileAnalysis,
                   analyzingFileId, timers, serverFiles>>

\* The upload status indicator after handleFileUpload's continuation.
UploadStatusAfter(r) ==
    IF r.outcome = "rejected" THEN "Upload failed: " \o r.message
    ELSE IF Success(r) THEN "Upload successful!"
    ELSE uploadStatus

\* Mutant of HandleFileUploadDone: fetchFiles() stands after the if
\* statement.
HandleFileUploadDoneAlwaysRefreshes(m) ==
    /\ m.kind = "upload" /\ Deliverable(m)
    /\ uploadStatus' = Set(UploadStatusAfter(m.resp), uploadStatus)
    /\ net' = (net \ {m}) \cup
           (IF m.resp.outcome = "resolved"
            THEN {Request(net \ {m}, "files", 0, NoCapture)}
            ELSE {})
    /\ timers' = IF Success(m.resp) THEN timers + 1 ELSE timers
    /\ notice' = Null
    /\ UNCHANGED <<activeTab, f1Data, insights, files, loading, error,
                   selectedYear, historicalData, selectedFileAnalysis,
                   analyzingFileId, serverFiles, userOps>>

\* handleFileUpload from its await on.
HandleFileUploadDone(m) ==
    /\ m.kind = "upload" /\ Deliverable(m)
    /\ uploadStatus' = Set(UploadStatusAfter(m.resp), uploadStatus)
    /\ net' = (net \ {m}) \cup
           (IF Success(m.resp)
            THEN {Request(net \ {m}, "files", 0, NoCapture)}
            ELSE {})
    /\ timers' = IF Success(m.resp) THEN timers + 1 ELSE timers
    /\ notice' = Null
    /\ UNCHANGED <<activeTab, f1Data, insights, files, loading, error,
                   selectedYear, historicalData, selectedFileAnalysis,
                   analyzingFileId, serverFiles, userOps>>

\* The callback of setTimeout(() => setUploadStatus(''), 3000).
UploadTimer ==
    /\ timers > 0
    /\ uploadStatus' = Set("", uploadStatus)
    /\ timers' = timers - 1
    /\ notice' = Null
    /\ UNCHANGED <<activeTab, f1Data, insights, files, loading, error,
                   selectedYear, historicalData, selectedFileAnalysis,
                   analyzingFileId, net, serverFiles, userOps>>

(***************************************************************************)
(* deleteFile.                                                             *)
(***************************************************************************)
\* The confirm() dialog of deleteFile and the user's answer to it.
Confirm(answer) == [type |-> "confirm", answer |-> answer]

\* onClick of the Delete button of file fileId, confirm() answered OK:
\* deleteFile(fileId) up to its await.
DeleteFile(fileId) ==
    /\ MayStart
    /\ activeTab = "files"
    /\ fileId \in IdsOf(files)
    /\ net' = net \cup {Request(net, "delete", fileId, Capture)}
    /\ userOps' = userOps + 1
    /\ notice' = Confirm(TRUE)
    /\ UNCHANGED <<state, timers, serverFiles>>

\* Mutant of DeleteFileCancel: the return after the cancelled confirm() is
\* left out.
DeleteFileCancelNoReturn(fileId) ==
    /\ MayStart
    /\ activeTab = "files"
    /\ fileId \in IdsOf(files)
    /\ net' = net \cup {Request(net, "delete", fileId, Capture)}
    /\ userOps' = userOps + 1
    /\ notice' = Confirm(FALSE)
    /\ UNCHANGED <<state, timers, serverFiles>>

\* onClick of the Delete button of file fileId, confirm() cancelled.
DeleteFileCancel(fileId) ==
    /\ Rendered
    /\ activeTab = "files"
    /\ fileId \in IdsOf(files)
    /\ notice' = Confirm(FALSE)
    /\ UNCHANGED <<state, net, timers, serverFiles, userOps>>

\* selectedFileAnalysis?.analysis &&
\*   selectedFileAnalysis.filename === files.find(f => f.id === fileId)?.filename
\* on the component state cap that deleteFile's closure holds.
DeletesAnalysisNever(cap, fileId) == FALSE

DeletesAnalysis(cap, fileId) ==
    /\ Truthy(Field(cap.selectedFileAnalysis, "analysis"))
    /\ Field(cap.selectedFileAnalysis, "filename")
           = Field(Find(cap.files, fileId), "filename")

RetractsWhenOk(m) ==
    /\ m.resp.outcome = "resolved"
    /\ m.resp.ok
    /\ DeletesAnalysis(m.cap, m.arg)

\* deleteFile's continuation retracts the analysis: the await did not
\* throw and the condition holds.
Retracts(m) ==
    m.resp.outcome = "resolved" /\ DeletesAnalysis(m.cap, m.arg)

\* The analysis cache after deleteFile's continuation.
AnalysisAfterDelete(m) ==
    IF Retracts(m) THEN Null ELSE selectedFileAnalysis

\* Mutant of TabAfterDelete: setActiveTab('files') is left out.
TabAfterDeleteStays(m) == activeTab

\* The active tab after deleteFile's continuation.
TabAfterDelete(m) ==
    IF Retracts(m) THEN "files" ELSE activeTab

\* Mutant of DeleteFileDone: fetchFiles() stands inside the if statement.
DeleteFileDoneRefreshesOnRetract(m) ==
    /\ m.kind = "delete" /\ Deliverable(m)
    /\ selectedFileAnalysis' = Set(AnalysisAfterDelete(m), selectedFileAnalysis)
    /\ activeTab' = Set(TabAfterDelete(m), activeTab)
    /\ net' = (net \ {m}) \cup
           (IF Retracts(m)
            THEN {Request(net \ {m}, "files", 0, NoCapture)}
            ELSE {})
    /\ notice' = Null
    /\ UNCHANGED <<f1Data, insights, files, loading, error, uploadStatus,
                   selectedYear, historicalData, analyzingFileId, timers,
                   serverFiles, userOps>>

\* deleteFile from its await on.
DeleteFileDone(m) ==
    /\ m.kind = "delete" /\ Deliverable(m)
    /\ selectedFileAnalysis' = Set(AnalysisAfterDelete(m), selectedFileAnalysis)
    /\ activeTab' = Set(TabAfterDelete(m), activeTab)
    /\ net' = (net \ {m}) \cup
           (IF m.resp.outcome = "resolved"
            THEN {Request(net \ {m}, "files", 0, NoCapture)}
            ELSE {})
    /\ notice' = Null
    /\ UNCHANGED <<f1Data, insights, files, loading, error, uploadStatus,
                   selectedYear, historicalData, analyzingFileId, timers,
                   serverFiles, userOps>>

(***************************************************************************)
(* The component.                                                          *)
(***************************************************************************)
\* Mutant of Init: the mount effect is left out.
InitWithoutMount ==
    /\ activeTab = "standings"
    /\ f1Data = Null
    /\ insights = Array(<< >>)
    /\ files = Array(<< >>)
    /\ loading = FALSE
    /\ error = Null
    /\ uploadStatus = ""
    /\ selectedYear = 2024
    /\ historicalData = Null
    /\ selectedFileAnalysis = Null
    /\ analyzingFileId = Null
    /\ net = {}
    /\ timers = 0
    /\ notice = Null
    /\ serverFiles = InitialFiles
    /\ userOps = 0

\* The useState initial values, and the mount effect's fetchFiles() issued.
Init ==
    /\ activeTab = "standings"
    /\ f1Data = Null
    /\ insights = Array(<< >>)
    /\ files = Array(<< >>)
    /\ loading = FALSE
    /\ error = Null
    /\ uploadStatus = ""
    /\ selectedYear = 2024
    /\ historicalData = Null
    /\ selectedFileAnalysis = Null
    /\ analyzingFileId = Null
    /\ net = {Request({}, "files", 0, NoCapture)}
    /\ timers = 0
    /\ notice = Null
    /\ serverFiles = InitialFiles
    /\ userOps = 0

Next ==
    \/ \E t \in Tabs : SetActiveTab(t)
    \/ \E y \in YearInputs : SetSelectedYear(y)
    \/ FetchF1Data
    \/ FetchHistoricalData
    \/ HandleFileUpload
    \/ UploadTimer
    \/ \E fileId \in FileIds : userOps < MaxUserOps /\ AnalyzeFile(fileId)
    \/ \E fileId \in FileIds : DeleteFile(fileId)
    \/ \E fileId \in FileIds : DeleteFileCancel(fileId)
    \/ \E m \in net : FetchF1DataDone(m)
    \/ \E m \in net : FetchInsightsDone(m)
    \/ \E m \in net : FetchHistoricalDataDone(m)
    \/ \E m \in net : FetchFilesDone(m)
    \/ \E m \in net : AnalyzeFileDone(m)
    \/ \E m \in net : HandleFileUploadDone(m)
    \/ \E m \in net : DeleteFileDone(m)
    \/ ServerReply

Spec == Init /\ [][Next]_vars


\* The file manager: upload, analyze, delete.
NextFiles ==
    \/ \E t \in Tabs : SetActiveTab(t)
    \/ HandleFileUpload
    \/ UploadTimer
    \/ \E fileId \in FileIds : userOps < MaxUserOps /\ AnalyzeFile(fileId)
    \/ \E fileId \in FileIds : DeleteFile(fileId)
    \/ \E fileId \in FileIds : DeleteFileCancel(fileId)
    \/ \E m \in net : FetchFilesDone(m)
    \/ \E m \in net : AnalyzeFileDone(m)
    \/ \E m \in net : HandleFileUploadDone(m)
    \/ \E m \in net : DeleteFileDone(m)
    \/ ServerReply

SpecFiles == Init /\ [][NextFiles]_vars

\* The season, insights and historical fetches.
NextFetch ==
    \/ \E t \in Tabs : SetActiveTab(t)
    \/ \E y \in YearInputs : SetSelectedYear(y)
    \/ FetchF1Data
    \/ FetchHistoricalData
    \/ \E m \in net : FetchF1DataDone(m)
    \/ \E m \in net : FetchInsightsDone(m)
    \/ \E m \in net : FetchHistoricalDataDone(m)
    \/ \E m \in net : FetchFilesDone(m)
    \/ ServerReply

SpecFetch == Init /\ [][NextFetch]_vars

\* The season fetch together with analyzeFile.
NextAnalyze ==
    \/ \E t \in Tabs : SetActiveTab(t)
    \/ FetchF1Data
    \/ \E fileId \in FileIds : userOps < MaxUserOps /\ AnalyzeFile(fileId)
    \/ \E m \in net : FetchF1DataDone(m)
    \/ \E m \in net : FetchInsightsDone(m)
    \/ \E m \in net : FetchFilesDone(m)
    \/ \E m \in net : AnalyzeFileDone(m)
    \/ ServerReply

SpecAnalyze == Init /\ [][NextAnalyze]_vars

\* analyzeFile alone: the user only changes tabs and analyzes files.
NextAnalyses ==
    \/ \E t \in Tabs : SetActiveTab(t)
    \/ \E fileId \in FileIds : AnalyzeFile(fileId)
    \/ \E m \in net : FetchFilesDone(m)
    \/ \E m \in net : AnalyzeFileDone(m)
    \/ ServerReply

SpecAnalyses == Init /\ [][NextAnalyses]_vars

\* Every handler that issues a request, with the continuations and the tab
\* buttons that lead to them.
NextRequests ==
    \/ \E t \in Tabs : SetActiveTab(t)
    \/ FetchF1Data
    \/ FetchHistoricalData
    \/ HandleFileUpload
    \/ \E fileId \in FileIds : userOps < MaxUserOps /\ AnalyzeFile(fileId)
    \/ \E fileId \in FileIds : DeleteFile(fileId)
    \/ \E m \in net : FetchF1DataDone(m)
    \/ \E m \in net : FetchInsightsDone(m)
    \/ \E m \in net : FetchHistoricalDataDone(m)
    \/ \E m \in net : FetchFilesDone(m)
    \/ \E m \in net : AnalyzeFileDone(m)
    \/ \E m \in net : HandleFileUploadDone(m)
    \/ \E m \in net : DeleteFileDone(m)
    \/ ServerReply

SpecRequests == Init /\ [][NextRequests]_vars

\* SpecAnalyze with every issued request eventually answered and every
\* continuation that may run eventually run.
SpecAnalyzeLive ==
    /\ SpecAnalyze
    /\ WF_vars(ServerReply)
    /\ WF_vars(\E m \in net : FetchF1DataDone(m))
    /\ WF_vars(\E m \in net : FetchInsightsDone(m))
    /\ WF_vars(\E m \in net : FetchFilesDone(m))
    /\ WF_vars(\E m \in net : AnalyzeFileDone(m))

(***************************************************************************)
(* Properties.                                                             *)
(***************************************************************************)
\* The continuation awaiting request m runs in this step.
Handled(m) == m \in net /\ m \notin net' /\ Answered(m)

\* The continuation awaiting request m runs in this step in the mounted
\* component, where its state setters take effect.
HandledMounted(m) == Rendered /\ Handled(m)

\* The body of m's response carries success = flag.
Declares(m, flag) ==
    /\ m.resp.outcome = "resolved"
    /\ "success" \in DOMAIN m.resp.body
    /\ m.resp.body.success = Bool(flag)

FileAnalysisSelectable == "file-analysis" \in AvailableTabs

\* C1: in every state the file-analysis tab is selectable iff an analysis is
\* cached; it is selectable right after the step in which the mounted
\* component handles a successful analyze response and not selectable right
\* after a step that clears the cache.
C1_FileAnalysisTabIffCached ==
    /\ FileAnalysisSelectable <=> selectedFileAnalysis # Null
    /\ [][/\ FileAnalysisSelectable' <=> selectedFileAnalysis' # Null
          /\ \A m \in net :
                 HandledMounted(m) /\ m.kind = "analyze" /\ Declares(m, TRUE)
                     => FileAnalysisSelectable'
          /\ selectedFileAnalysis # Null /\ selectedFileAnalysis' = Null
                 => ~FileAnalysisSelectable']_vars

C1_Witness ==
    /\ selectedFileAnalysis # Null
    /\ FileAnalysisSelectable
    /\ activeTab = "file-analysis"

\* C2: no reachable state has the file-analysis tab active while no analysis
\* is cached.
C2_ActiveAnalysisTabHasAnalysis ==
    activeTab = "file-analysis" => selectedFileAnalysis # Null

\* A delete that will retract the cached analysis is about to complete while
\* the file-analysis tab is active.
C2_Witness ==
    /\ activeTab = "file-analysis"
    /\ selectedFileAnalysis # Null
    /\ \E m \in net : m.kind = "delete" /\ Deliverable(m) /\ Retracts(m)

\* The filename of file fileId in the displayed file list equals the filename
\* of the cached analysis.
AnalysisIsOf(fileId) ==
    /\ selectedFileAnalysis # Null
    /\ files.type = "array"
    /\ fileId \in IdsOf(files)
    /\ Find(files, fileId).filename = selectedFileAnalysis.filename

\* C3: when the request of a confirmed delete(id) completes, the analysis
\* cache is emptied and activeTab becomes files if file id carries the
\* filename of the cached analysis, and both are left unchanged otherwise.
C3_DeleteRetractsByFilename ==
    [][\A m \in net :
           Handled(m) /\ m.kind = "delete" /\ m.resp.outcome = "resolved"
               => IF AnalysisIsOf(m.arg)
                  THEN selectedFileAnalysis' = Null /\ activeTab' = "files"
                  ELSE /\ selectedFileAnalysis' = selectedFileAnalysis
                       /\ activeTab' = activeTab]_vars

\* C4: when the confirmed delete of the file behind the cached analysis
\* completes while another tab than file-analysis is active, activeTab is
\* left unchanged.
C4_DeleteKeepsOtherTab ==
    [][\A m \in net :
           (/\ Handled(m) /\ m.kind = "delete" /\ m.resp.outcome = "resolved"
            /\ AnalysisIsOf(m.arg)
            /\ activeTab # "file-analysis")
               => activeTab' = activeTab]_vars

\* C5: in every state analyzingFileId is the id of every analyze call in
\* flight, whatever other analyze calls are interleaved.
C5_AnalyzingIdOfEveryCall ==
    \A m \in net : m.kind = "analyze" => analyzingFileId = Num(m.arg)

\* C6: right after the continuation of an analyze call has run in the
\* mounted component, analyzingFileId is null, whatever the outcome.
C6_AnalyzingIdClearedOnCompletion ==
    [][\A m \in net :
           HandledMounted(m) /\ m.kind = "analyze"
               => analyzingFileId' = Null]_vars

\* A failed analyze has just been handled, after an earlier successful one.
C6_Witness ==
    /\ notice.type = "string"
    /\ selectedFileAnalysis # Null
    /\ analyzingFileId = Null

\* C7: the mounted component handling an analyze response with
\* success = true stores that response's payload in the analysis cache and
\* makes file-analysis the active tab.
C7_AnalyzeSuccessCachesAndNavigates ==
    [][\A m \in net :
           HandledMounted(m) /\ m.kind = "analyze" /\ Declares(m, TRUE)
               => /\ selectedFileAnalysis' = m.resp.body
                  /\ activeTab' = "file-analysis"]_vars

\* The analysis of file 2 is shown after a second analyze call.
C7_Witness ==
    /\ activeTab = "file-analysis"
    /\ selectedFileAnalysis # Null
    /\ selectedFileAnalysis.filename = Str(FileName(2))
    /\ userOps = 2
    /\ InFlight("analyze") = {}

\* C8: handling a failed analyze raises an alert (the server's message when
\* there is one) and changes no component state but analyzingFileId, which
\* becomes null in the mounted component.
C8_AnalyzeFailureOnlyAlerts ==
    [][\A m \in net :
           Handled(m) /\ m.kind = "analyze" /\ ~Declares(m, TRUE)
               => /\ notice'.type = "string"
                  /\ (m.resp.outcome = "resolved"
                          /\ "message" \in DOMAIN m.resp.body
                          => notice' = m.resp.body.message)
                  /\ (Rendered => analyzingFileId' = Null)
                  /\ UNCHANGED <<activeTab, selectedFileAnalysis, error,
                                 f1Data, insights, files, loading,
                                 uploadStatus, selectedYear,
                                 historicalData>>]_vars

\* A failed analyze has just been handled while the banner shows the error
\* of a failed season fetch.
C8_Witness ==
    /\ notice.type = "string"
    /\ analyzingFileId = Null
    /\ error # Null
    /\ activeTab = "files"

\* C9: handling a response with success = false changes none of the five
\* resource caches.
C9_DeclaredFailureKeepsCaches ==
    [][\A m \in net :
           Handled(m) /\ Declares(m, FALSE)
               => UNCHANGED <<f1Data, insights, historicalData, files,
                              selectedFileAnalysis>>]_vars

\* C10: after the mounted component has handled a fetchHistorical(year)
\* answered success = false the historical cache is empty, loading is false
\* and the banner shows the server's message, or the default text for that
\* year when there is none.
C10_HistoricalDeclaredFailure ==
    [][\A m \in net :
           HandledMounted(m) /\ m.kind = "historical" /\ Declares(m, FALSE)
               => /\ historicalData' = Null
                  /\ loading' = FALSE
                  /\ error' =
                         IF "message" \in DOMAIN m.resp.body
                         THEN m.resp.body.message
                         ELSE Str("No data available for "
                                      \o ToString(m.arg))]_vars

\* fetchHistorical(1950) has failed with the server's message "no data".
C10_Witness ==
    /\ error = Str("no data")
    /\ historicalData = Null
    /\ ~loading
    /\ selectedYear = 1950
    /\ InFlight("historical") = {}

\* C11: while a fetchHistorical call is in flight, the historical season
\* cache is empty.
C11_HistoricalCacheEmptyInFlight ==
    InFlight("historical") # {} => historicalData = Null

\* A second fetchHistorical call is in flight, the first one being over.
C11_Witness ==
    /\ InFlight("historical") # {}
    /\ historicalData = Null
    /\ userOps = 2
    /\ f1Data = Null
    /\ InFlight("fetch-data") = {}

\* The requests of a kind issued in this step.
Issued(kind) == {m \in net' \ net : m.kind = kind /\ m.resp = Pending}

\* The response of m is an OK HTTP response whose body carries
\* success = true.
SucceededOk(m) ==
    m.resp.outcome = "resolved" /\ m.resp.ok /\ Declares(m, TRUE)

\* The continuation of a season snapshot fetch with response outcome ok
\* (TRUE: succeeded, FALSE: failed) runs in this step.
SeasonHandled(ok) ==
    \E m \in net :
        Handled(m) /\ m.kind = "fetch-data" /\ SucceededOk(m) = ok

\* C12: handling a failed season snapshot fetch (success = false, a non-OK
\* HTTP response or a transport failure) leaves the snapshot cache and the
\* insights cache unchanged, sets the banner error of the mounted component
\* to a non-empty message and issues no fetchInsights.
C12_SeasonFailure ==
    [][SeasonHandled(FALSE)
           => /\ f1Data' = f1Data
              /\ insights' = insights
              /\ (Rendered => error'.type = "string" /\ Truthy(error'))
              /\ Issued("insights") = {}]_vars

\* A season snapshot fetch has failed after an earlier one had filled the
\* snapshot cache: the snapshot is still cached and the banner shows an
\* error.
C12_Witness ==
    /\ f1Data # Null
    /\ error # Null
    /\ ~loading
    /\ userOps = 2
    /\ InFlight("fetch-data") = {}
    /\ historicalData = Null /\ activeTab = "standings"

\* C13: handling a successful season snapshot fetch stores the payload in
\* the snapshot cache of the mounted component and issues exactly one
\* fetchInsights; no fetchInsights is issued on mount nor in any other step.
C13_InsightsOnlyAfterSeasonSuccess ==
    /\ InFlight("insights") = {}
    /\ [][/\ \A m \in net :
                 (Handled(m) /\ m.kind = "fetch-data" /\ SucceededOk(m))
                     => (/\ (Rendered => f1Data' = Field(m.resp.body, "data"))
                         /\ Cardinality(Issued("insights")) = 1)
          /\ (Issued("insights") # {} => SeasonHandled(TRUE))]_vars

\* Two season snapshot fetches have succeeded and the fetchInsights of each
\* is in flight.
C13_Witness ==
    /\ f1Data # Null
    /\ Cardinality(InFlight("insights")) = 2
    /\ InFlight("fetch-data") = {}

\* C14: handling a failed fetchInsights (success = false or a transport
\* failure) leaves the banner error, loading, the snapshot cache and
\* activeTab unchanged.
C14_InsightsFailureIsSilent ==
    [][\A m \in net :
           Handled(m) /\ m.kind = "insights" /\ ~Declares(m, TRUE)
               => UNCHANGED <<error, loading, f1Data, activeTab>>]_vars

\* A season snapshot fetch has succeeded and its fetchInsights has failed in
\* transport: the snapshot is cached, no banner error is shown, the
\* insights cache is still empty.
C14_Witness ==
    /\ f1Data # Null
    /\ error = Null
    /\ ~loading
    /\ insights = Array(<< >>)
    /\ InFlight("insights") = {}
    /\ InFlight("fetch-data") = {}

\* A season snapshot fetch or a historical fetch is started in this step.
FetchStarted == Issued("fetch-data") # {} \/ Issued("historical") # {}

\* C15 as claimed: a banner error is removed or replaced only by a step that
\* handles the response of a season or historical fetch, not by the start of
\* a fetch.
C15_BannerUntilFetchCompletes ==
    [][error # Null /\ error' # error
           => \E m \in net :
                  Handled(m) /\ m.kind \in {"fetch-data", "historical"}]_vars

\* C15 amended: the start of a season or historical fetch clears the banner
\* error, and a banner error is changed by no other step.
C15_BannerUntilNextFetchStarts ==
    [][/\ FetchStarted => error' = Null
       /\ (error # Null /\ error' # error) => FetchStarted]_vars

\* The error of a failed season fetch is still shown after the user has
\* moved to the historical tab and selected a year, and after the file list
\* has arrived.
C15_Witness ==
    /\ error = Str("Failed to fetch data")
    /\ activeTab = "historical"
    /\ selectedYear = 1950
    /\ InFlight("files") = {}

\* The upload status indicator shows a failure message.
UploadFailureShown ==
    uploadStatus \notin {"", "Uploading...", "Upload successful!"}

\* C16: handling the response of an upload leaves the indicator at the
\* success text when the body carries success = true and at a failure
\* message in every other case.
C16_UploadEndsInFinalState ==
    [][\A m \in net :
           Handled(m) /\ m.kind = "upload"
               => IF Declares(m, TRUE)
                  THEN uploadStatus' = "Upload successful!"
                  ELSE UploadFailureShown']_vars

\* C17: a step in which an auto-clear timer fires leaves a failure message
\* in the upload status indicator in place.
C17_FailureMessageSurvivesTimers ==
    [][UploadFailureShown /\ timers' < timers
           => uploadStatus' = uploadStatus]_vars

\* C18: handling the response of an upload issues exactly one fetchFiles
\* when the body carries success = true and none otherwise.
C18_RefreshOnlyAfterUploadSuccess ==
    [][\A m \in net :
           Handled(m) /\ m.kind = "upload"
               => Cardinality(Issued("files"))
                      = IF Declares(m, TRUE) THEN 1 ELSE 0]_vars

\* An upload has succeeded after the mount's file list had arrived, and
\* its fetchFiles is in flight.
C18_Witness ==
    /\ uploadStatus = "Upload successful!"
    /\ files = Array(FileList(InitialFiles))
    /\ 4 \in serverFiles
    /\ \E m \in InFlight("files") : m.resp = Pending

\* C19: a step in which the confirm() of deleteFile is cancelled issues no
\* request and changes no state variable.
C19_CancelledDeleteChangesNothing ==
    [][notice' = Confirm(FALSE)
           => UNCHANGED <<state, net, timers, serverFiles>>]_vars

\* A delete has just been cancelled while an upload is in flight and an
\* analysis is cached.
C19_Witness ==
    /\ notice = Confirm(FALSE)
    /\ selectedFileAnalysis # Null
    /\ uploadStatus = "Uploading..."
    /\ InFlight("delete") = {}

\* C20: the step in which a delete is confirmed issues exactly one DELETE
\* request, and the step that handles its response (whatever the HTTP
\* status), which is the step that applies the retraction, issues exactly
\* one fetchFiles.
C20_DeleteIssuesOneRequestAndOneRefresh ==
    [][/\ notice' = Confirm(TRUE) => Cardinality(Issued("delete")) = 1
       /\ \A m \in net :
              (Handled(m) /\ m.kind = "delete"
                   /\ m.resp.outcome = "resolved")
                  => Cardinality(Issued("files")) = 1]_vars

\* File 1 has been analyzed and then deleted: the analysis is retracted, the
\* files tab is active and the fetchFiles of the delete is in flight.
C20_Witness ==
    /\ selectedFileAnalysis = Null
    /\ activeTab = "files"
    /\ serverFiles = {2, 3}
    /\ userOps = 2
    /\ uploadStatus = ""
    /\ "file-analysis" \notin AvailableTabs
    /\ InFlight("delete") = {} /\ InFlight("analyze") = {}
    /\ \E m \in InFlight("files") : m.resp = Pending

\* C21: a step that is a click on tab t has t in the tab list, makes t the
\* active tab and changes nothing else; t is still in the tab list
\* afterwards, and a click on the tab that is active already changes no
\* state variable.
C21_SelectTabSetsOnlyActiveTab ==
    [][\A t \in Tabs :
           SetActiveTab(t)
               => /\ t \in AvailableTabs
                  /\ activeTab' = t
                  /\ UNCHANGED <<f1Data, insights, files, loading, error,
                                 uploadStatus, selectedYear, historicalData,
                                 selectedFileAnalysis, analyzingFileId,
                                 net, timers, serverFiles>>
                  /\ (t \in AvailableTabs)'
                  /\ (activeTab = t => UNCHANGED state)]_vars

\* The race tab has been selected while an analysis is cached and an upload
\* is in flight.
C21_Witness ==
    /\ activeTab = "race"
    /\ selectedFileAnalysis # Null
    /\ uploadStatus = "Uploading..."

\* The analyze calls of file fileId in flight.
AnalyzesOf(fileId) == {m \in InFlight("analyze") : m.arg = fileId}

\* C22: at most one analyze call per file id is in flight.
C22_OneAnalyzePerFile ==
    \A fileId \in FileIds : Cardinality(AnalyzesOf(fileId)) <= 1

\* C23 as claimed: on the historical tab a historical fetch can be started
\* while an earlier one is still in flight.
C23_SecondHistoricalFetchCanStart ==
    (/\ Rendered /\ activeTab = "historical" /\ userOps < MaxUserOps
     /\ InFlight("historical") # {})
        => ENABLED FetchHistoricalData

\* C23 amended: at most one historical fetch is in flight, loading is true
\* while it is, and the mounted component handling its successful response
\* stores that response's payload, whose year is the year the fetch was
\* started with.
C23_OneHistoricalFetchAtATime ==
    /\ [](/\ Cardinality(InFlight("historical")) <= 1
          /\ InFlight("historical") # {} => loading)
    /\ [][\A m \in net :
              (HandledMounted(m) /\ m.kind = "historical"
                   /\ Declares(m, TRUE))
                  => (/\ historicalData' = m.resp.body
                      /\ historicalData'.year = m.arg)]_vars

\* The season of 1950 is cached although the year selector was set back to
\* 2024 while the fetch was in flight.
C23_Witness ==
    /\ historicalData # Null
    /\ historicalData.year = 1950
    /\ selectedYear = 2024
    /\ userOps = 1

\* The requests issued in this step.
IssuedRequests == {m \in net' \ net : m.resp = Pending}

\* The kinds of request a user action issues.
UserKinds == {"fetch-data", "historical", "analyze", "upload", "delete"}

\* The response of m is a failure: a transport failure, a non-OK response to
\* the season fetch, or a body that does not carry success = true (a DELETE
\* that is answered counts as successful whatever it carries).
FailedRequest(m) ==
    \/ m.resp.outcome = "rejected"
    \/ m.kind = "fetch-data" /\ ~m.resp.ok
    \/ m.kind # "delete" /\ ~Declares(m, TRUE)

\* C24: the mount issues one fetchFiles and nothing else; afterwards a step
\* issues at most one request, which is either the request of a user
\* operation, the fetchInsights of a season fetch that succeeded, or the
\* fetchFiles of an upload that succeeded or of a DELETE that was answered;
\* a step that handles a failed request issues none.
C24_NoAutomaticRetry ==
    /\ \E m \in net : net = {m} /\ m.kind = "files" /\ m.resp = Pending
    /\ [][/\ Cardinality(IssuedRequests) <= 1
          /\ \A r \in IssuedRequests :
                 \/ /\ r.kind \in UserKinds
                    /\ userOps' = userOps + 1
                    /\ \A m \in net : ~Handled(m)
                 \/ r.kind = "insights" /\ SeasonHandled(TRUE)
                 \/ /\ r.kind = "files"
                    /\ \E m \in net :
                           /\ Handled(m) /\ ~FailedRequest(m)
                           /\ m.kind \in {"upload", "delete"}
          /\ \A m \in net :
                 (Handled(m) /\ FailedRequest(m)) => IssuedRequests = {}]_vars

\* An upload and a season fetch have both succeeded and the follow-up of
\* each is in flight.
C24_Witness ==
    /\ \E m \in InFlight("insights") : m.resp = Pending
    /\ \E m \in InFlight("files") : m.resp = Pending
    /\ uploadStatus = "Upload successful!"
    /\ f1Data # Null

\* C25: when every request is answered and the user stops starting
\* operations, loading ends up false and analyzingFileId null.
C25_IndicatorsEventuallyClear ==
    <>[](~loading /\ analyzingFileId = Null)

\* The rows of the cached snapshot's driver standings (none without one).
SnapshotRows ==
    IF f1Data = Null THEN << >> ELSE f1Data.driver_standings.items

\* C26 as claimed: the driver standings view shows the rows with the (at
\* most 10) lowest position numbers, by ascending position.
C26_TopTenByPosition ==
    LET shown == GetDriverStandings
    IN  /\ Len(shown) = IF Len(SnapshotRows) < 10 THEN Len(SnapshotRows)
                        ELSE 10
        /\ \A i, j \in DOMAIN shown :
               i < j => shown[i].position < shown[j].position
        /\ \A i \in DOMAIN shown :
               \A k \in DOMAIN SnapshotRows :
                   SnapshotRows[k].position < shown[i].position
                       => \E j \in DOMAIN shown : shown[j] = SnapshotRows[k]

\* C26 amended: the driver standings view shows the first 10 rows of the
\* cached snapshot in the order of the payload (all rows when there are fewer
\* than 10, none when no snapshot is cached).
C26_FirstTenInPayloadOrder ==
    LET shown == GetDriverStandings
    IN  /\ Len(shown) = IF Len(SnapshotRows) < 10 THEN Len(SnapshotRows)
                        ELSE 10
        /\ \A i \in DOMAIN shown : shown[i] = SnapshotRows[i]

\* The snapshot of twelve drivers is cached and the view shows the ten
\* drivers ranked 1..10.
C26_Witness ==
    /\ f1Data # Null
    /\ Len(f1Data.driver_standings.items) = 12
    /\ GetDriverStandings = [i \in 1..10 |-> DriverRow(i)]

\* No snapshot, historical season or analysis is cached, loading is false,
\* the banner error and analyzingFileId are null and file-analysis is not in
\* the tab list.
NothingFetched ==
    /\ f1Data = Null /\ historicalData = Null /\ selectedFileAnalysis = Null
    /\ ~loading /\ error = Null /\ analyzingFileId = Null
    /\ "file-analysis" \notin AvailableTabs

\* The state right after the mount: standings is active, nothing is fetched,
\* the insights and the file list are empty, and the mount's fetchFiles is
\* the one request issued.
MountState ==
    /\ activeTab = "standings"
    /\ NothingFetched
    /\ insights = Array(<< >>) /\ files = Array(<< >>)
    /\ \E m \in net : net = {m} /\ m.kind = "files" /\ m.resp = Pending

\* C27: the initial state is the state right after the mount, and until the
\* user starts an operation nothing is fetched and no request but the
\* mount's fetchFiles exists.
C27_InitialState ==
    /\ MountState
    /\ [](userOps = 0
             => /\ NothingFetched
                /\ Cardinality(net) <= 1
                /\ \A m \in net : m.kind = "files")

\* The state right after the mount, before anything has happened.
C27_Witness ==
    /\ MountState
    /\ userOps = 0
    /\ uploadStatus = "" /\ selectedYear = 2024

\* C28: when no delete and no analyze call is in flight, the cached analysis
\* is not the analysis of a deleted file: some file the backend still holds
\* carries its filename.
C28_NoAnalysisOfDeletedFile ==
    (/\ InFlight("delete") = {} /\ InFlight("analyze") = {}
     /\ selectedFileAnalysis # Null)
        => \E id \in serverFiles :
               Str(FileName(id)) = selectedFileAnalysis.filename

\* C29 as claimed: when the successful response of the last request in
\* flight, a fetchFiles, is handled, the cached file list is the list of the
\* files the backend holds.
C29_FileListEqualsServer ==
    [][\A m \in net :
           (/\ Handled(m) /\ m.kind = "files" /\ Declares(m, TRUE)
            /\ net' = {})
               => files' = Array(FileList(serverFiles))]_vars

\* C29 amended: the mounted component handling a successful fetchFiles
\* response replaces the cached file list by the list that response carries,
\* whatever the cache held.
C29_FileListOfLastResponse ==
    [][\A m \in net :
           (HandledMounted(m) /\ m.kind = "files" /\ Declares(m, TRUE))
               => files' = m.resp.body.files]_vars

\* No request is in flight after a successful upload, and the cache holds
\* the file list of before the upload.
C29_Witness ==
    /\ net = {}
    /\ uploadStatus = "Upload successful!"
    /\ serverFiles = {1, 2, 3, 4}
    /\ files = Array(FileList(InitialFiles))

\* The season snapshot fetches and historical fetches in flight.
LoadingFetches == InFlight("fetch-data") \cup InFlight("historical")

\* C30: at most one request among the season snapshot fetches and the
\* historical fetches is in flight, and in the mounted component loading is
\* true exactly when one is.
C30_LoadingIffOneFetchInFlight ==
    /\ Cardinality(LoadingFetches) <= 1
    /\ LoadingFetches # {} => loading
    /\ Rendered => (loading => LoadingFetches # {})

\* A season snapshot fetch is in flight while the historical tab is shown,
\* after an earlier fetch has completed.
C30_Witness ==
    /\ loading
    /\ InFlight("fetch-data") # {}
    /\ activeTab = "historical"
    /\ userOps = 2

\* C31 as stated: handling the resolved DELETE of a file other than the one
\* whose analysis is cached (the cached analysis is not the one computed from
\* the deleted file) leaves the analysis cache and activeTab unchanged, also
\* when the two files share a filename.
C31_DeleteOfOtherFileKeepsCache ==
    [][\A m \in net :
          (/\ Handled(m)
           /\ m.kind = "delete"
           /\ m.resp.outcome = "resolved"
           /\ Truthy(Field(selectedFileAnalysis, "analysis"))
           /\ Field(selectedFileAnalysis, "analysis") # Analysis(m.arg))
          => UNCHANGED <<selectedFileAnalysis, activeTab>>]_vars

\* The filename of the analysis that was cached when Delete was clicked equals
\* the filename of the file to delete.
SameNameAtClick(m) ==
    /\ Truthy(Field(m.cap.selectedFileAnalysis, "analysis"))
    /\ Field(m.cap.selectedFileAnalysis, "filename") = Str(FileName(m.arg))

\* C31 amended: the delete correlates by filename only.  The mounted
\* component handling a resolved DELETE clears the analysis cache and sets
\* activeTab to files when the analysis cached at the click carried the
\* filename of the deleted file, which includes the delete of another record
\* of equal filename and distinct id; otherwise handling it leaves the
\* analysis cache and activeTab unchanged.
C31_DeleteCorrelatesByFilename ==
    [][\A m \in net :
          (Handled(m) /\ m.kind = "delete" /\ m.resp.outcome = "resolved")
          => IF SameNameAtClick(m) /\ Rendered
             THEN selectedFileAnalysis' = Null /\ activeTab' = "files"
             ELSE UNCHANGED <<selectedFileAnalysis, activeTab>>]_vars

\* The analysis of file 1 is cached, as it was at the click, and the resolved
\* DELETE of file 3, a distinct record of the same filename, is about to be
\* handled.
C31_Witness ==
    /\ Rendered
    /\ Field(selectedFileAnalysis, "analysis") = Analysis(1)
    /\ \E m \in net :
          /\ m.kind = "delete"
          /\ m.arg = 3
          /\ Deliverable(m)
          /\ m.resp.outcome = "resolved"
          /\ m.cap.selectedFileAnalysis = selectedFileAnalysis
          /\ FileName(3) = FileName(1)

\* C32: while an upload request is in flight and the upload status indicator
\* shows the uploading message, a step in which an auto-clear timer fires
\* leaves the uploading message in place.
C32_TimerKeepsUploadingIndicator ==
    [][(/\ InFlight("upload") # {}
        /\ uploadStatus = "Uploading..."
        /\ timers' < timers)
       => uploadStatus' = "Uploading..."]_vars

\* C33: handling a DELETE that failed in transport changes neither the
\* analysis cache, activeTab, the file list nor the banner error, raises no
\* alert and issues no fetchFiles; handling a DELETE that completed with any
\* HTTP status, an error status included, proceeds as after a success: it
\* issues exactly one fetchFiles and, in the mounted component, retracts the
\* analysis whose filename matched at the click.
C33_DeleteFailureOnlyLogged ==
    [][\A m \in net :
          (Handled(m) /\ m.kind = "delete")
          => IF m.resp.outcome = "rejected"
             THEN /\ UNCHANGED <<selectedFileAnalysis, activeTab, files,
                                 error>>
                  /\ Issued("files") = {}
                  /\ notice'.type # "string"
             ELSE /\ m.resp.status \in {200, 404}
                  /\ Cardinality(Issued("files")) = 1
                  /\ IF SameNameAtClick(m) /\ Rendered
                     THEN selectedFileAnalysis' = Null /\ activeTab' = "files"
                     ELSE UNCHANGED <<selectedFileAnalysis, activeTab>>]_vars

\* A confirmed delete that failed in transport is about to be handled while
\* the analysis cached at its click, which carried the filename of the file
\* to delete, is still cached.
C33_Witness ==
    /\ Rendered
    /\ \E m \in net :
          /\ m.kind = "delete"
          /\ Deliverable(m)
          /\ m.resp.outcome = "rejected"
          /\ SameNameAtClick(m)
          /\ selectedFileAnalysis = m.cap.selectedFileAnalysis

=============================================================================
